---- MODULE Spec2Model ----
(***************************************************************************)
(* Model of ddtrace/llmobs/_writer.py: the LLMObs event writers.           *)
(*                                                                         *)
(* One writer instance is modelled per behaviour; Init chooses whether it  *)
(* is an LLMObsEvalMetricWriter (BaseLLMObsWriter: its own buffer, lock    *)
(* and periodic) or an LLMObsSpanWriter (one client, whose                 *)
(* LLMObsSpanEncoder holds the buffer, the lock and buffer_size).          *)
(* Threads: the producers calling enqueue, the periodic worker ("timer")   *)
(* and the main thread, which calls start/stop and runs the atexit hooks.  *)
(* The `with lock:` block of an append (_enqueue, put) is one step, taken   *)
(* when the lock can be acquired; a detach is an acquire step and a step    *)
(* for the block's body; the HTTP exchange of a flush is a step of its own. *)
(*                                                                         *)
(* Six families of behaviours are checked: Spec (many events, one          *)
(* start), LifeSpec (fewer events; restarts and stop() on a stopped        *)
(* writer), FairSpec and FairThreadSpec (progress, under fair              *)
(* scheduling), SizeSpec (events that tags, metrics or other meta          *)
(* keys make large) and RecreateSpec (writers of every setting, and        *)
(* recreate()).                                                            *)
(***************************************************************************)
EXTENDS Integers, Sequences, FiniteSets

\* ---------------------------------------------------------------- bounds
\* Number of enqueue calls in a behaviour.
MaxEvents == 3
\* Number of start() calls in a behaviour.
MaxStarts == 1
\* The same two numbers for the behaviours that explore the lifecycle
\* (restarts, stop on a stopped writer) with fewer events, and the number of
\* stop() calls made on a stopped writer in such a behaviour.
MaxLifeEvents == 2
MaxLifeStarts == 2
MaxIdleStops == 1
\* The numbers of enqueue calls and of start() calls in the behaviours
\* checked for progress.
MaxLiveEvents == 2
MaxLiveStarts == 1
\* The number of enqueue calls in the behaviours checked for the completion
\* of every call, thread by thread.
MaxCallEvents == 1
\* The number of enqueue calls in the behaviours that explore events made
\* large by fields other than meta.input / meta.output.
MaxSizeEvents == 2
\* self._buffer_limit (1000 in the source), scaled down.
BufferLimit == 2
\* EVP_EVENT_SIZE_LIMIT (1 MiB in the source), in scaled size units.
EVP_EVENT_SIZE_LIMIT == 8
\* EVP_PAYLOAD_SIZE_LIMIT (5 MiB in the source): five times the event limit.
EVP_PAYLOAD_SIZE_LIMIT == 5 * EVP_EVENT_SIZE_LIMIT

\* --------------------------------------------------------------- threads
Producers == {"p1", "p2"}
Timer == "timer"
Main == "main"
Threads == Producers \cup {Timer, Main}
NoThread == "none"

\* ---------------------------------------------------------------- events
\* A value of meta.input / meta.output: its serialized length, and whether
\* it is the placeholder {"value": DROPPED_VALUE_TEXT}.
Text(n) == [dropped |-> FALSE, len |-> n]
DROPPED_VALUE_TEXT == [dropped |-> TRUE, len |-> Len(<<"#">>)]
DROPPED_IO_COLLECTION_ERROR == "dropped_io"

\* An event: meta.input, meta.output, the serialized length of every other
\* field (identifiers, tags, metrics, other meta keys), collection_errors,
\* and whether json.dumps accepts it (ser = FALSE: a value json cannot
\* encode sits in it, outside meta.input/output).
Event(id, i, o, r, errs, s) ==
    [id |-> id, input |-> Text(i), output |-> Text(o), rest |-> r,
     errs |-> errs, ser |-> s]

\* len(json.dumps(event)) for an event json.dumps accepts.
JsonLen(e) == e.input.len + e.output.len + e.rest + Len(e.errs)

\* len(json.dumps([event])) - len(json.dumps(event)): the "[" and the "]".
ListOverhead == Len(<<"[", "]">>)

\* The events producers pass to enqueue: a small one, one whose size is
\* exactly the event size limit, one so large that its size plus that of a
\* non-empty buffer exceeds the payload limit, one json cannot encode and,
\* for the first enqueue call of a behaviour (the encoder is then empty),
\* one whose size alone exceeds the payload limit.
NewEvents(id) ==
    { Event(id, 1, 1, 1, <<>>, TRUE),
      Event(id, EVP_EVENT_SIZE_LIMIT - 2, 1, 1, <<>>, TRUE),
      Event(id, EVP_PAYLOAD_SIZE_LIMIT - 4, 1, 1, <<"other">>, TRUE),
      Event(id, 1, 1, 1, <<>>, FALSE) }
       \cup {Event(i, EVP_PAYLOAD_SIZE_LIMIT, 1, 1, <<>>, TRUE) : i \in {id} \cap {1}}

\* Events that fields other than meta.input / meta.output (tags, metrics,
\* other meta keys) make large: one at the event size limit by the rest
\* alone, one just under the payload limit.
HeavyEvents(id) ==
    { Event(id, 1, 1, EVP_EVENT_SIZE_LIMIT, <<>>, TRUE),
      Event(id, 1, 1, EVP_PAYLOAD_SIZE_LIMIT - 3, <<>>, TRUE) }

\* The evaluation metric events producers pass to enqueue: one json can
\* encode and one it cannot.
NewMetricEvents(id) ==
    { Event(id, 1, 1, 1, <<>>, TRUE), Event(id, 1, 1, 1, <<>>, FALSE) }

\* A truncation that appends the marker to collection_errors.
_truncate_span_event_append(e) ==
    [e EXCEPT !.input = DROPPED_VALUE_TEXT,
              !.output = DROPPED_VALUE_TEXT,
              !.errs = Append(e.errs, DROPPED_IO_COLLECTION_ERROR)]

\* event["meta"]["input"] and ["output"] become {"value": DROPPED_VALUE_TEXT},
\* event["collection_errors"] becomes [DROPPED_IO_COLLECTION_ERROR].
_truncate_span_event(e) ==
    [e EXCEPT !.input = DROPPED_VALUE_TEXT,
              !.output = DROPPED_VALUE_TEXT,
              !.errs = <<DROPPED_IO_COLLECTION_ERROR>>]

\* ----------------------------------------------------------------- state
VARIABLES
    kind,        \* "base": LLMObsEvalMetricWriter; "span": LLMObsSpanWriter
    plan,        \* what the behaviour explores: "events", "lifecycle"
                 \* "progress", "calls", "sizes" or "recreate"
    writer,      \* the arguments the writer was constructed with: interval,
                 \* timeout and, for the span writer, is_agentless
    _llmobs_agentless_enabled, \* config._llmobs_agentless_enabled
    recreated,   \* history: the writers that recreate() returned
    idleStops,   \* history: number of stop() calls that found the status STOPPED
    status,      \* service status: "STOPPED" or "RUNNING"
    worker,      \* the periodic worker thread: "off", "on", "halting"
    hooks,       \* number of on_shutdown callbacks registered with atexit
    starts,      \* number of start() calls made
    phase,       \* the process: "up", "exiting" (atexit hooks run), "down"
    hooksLeft,   \* atexit callbacks still to run while exiting
    buffer,      \* self._buffer (writer or encoder)
    buffer_size, \* LLMObsSpanEncoder.buffer_size
    lockOwner,   \* self._lock (an RLock): the owning thread
    lockCount,   \* self._lock: its recursion level
    pc,          \* each thread's position
    ev,          \* each producer's `event`, as the list [event]
    esize,       \* each producer's `event_size`
    forced,      \* the producers whose enqueue call forced a flush
    batch,       \* each flushing thread's `events`
    created,     \* history: by id, the event as passed to enqueue ([event]),
                 \* kept while the writer holds the event
    fate,        \* history: what became of each event
    ndetach,     \* history: in how many detached batches each event was
    calls,       \* history: ids of the events put since the last detach
    raised       \* history: threads out of whose call an exception came

vars == <<kind, plan, writer, _llmobs_agentless_enabled, recreated, idleStops, status, worker, hooks, starts, phase, hooksLeft, buffer,
          buffer_size, lockOwner, lockCount, pc, ev, esize, forced, batch,
          created, fate, ndetach, calls, raised>>

conf == <<kind, plan, writer, _llmobs_agentless_enabled, recreated>>
local == <<ev, esize, forced>>
life == <<status, worker, hooks, starts, phase, hooksLeft, idleStops>>
lock == <<lockOwner, lockCount>>
hist == <<created, fate, ndetach, calls, raised>>

\* LLMObsSpanWriter(interval, timeout, is_agentless) as the model keeps it.
\* The mode selects the client, the intake url and the headers.
SpanWriter(interval, timeout, is_agentless) ==
    [interval |-> interval, timeout |-> timeout, is_agentless |-> is_agentless]

\* The values of interval and of timeout that writers are constructed with.
Intervals == {1, 2}
Timeouts == {3, 4}

\* The writers of kind k that a behaviour of plan p may construct: of every
\* setting when it explores recreate, of one setting (the span writer's
\* default mode) otherwise.
Writers(k, p) ==
    LET is == IF p = "recreate" THEN Intervals ELSE {1}
        ts == IF p = "recreate" THEN Timeouts ELSE {3}
        ms == IF p = "recreate" THEN BOOLEAN ELSE {TRUE}
    IN IF k = "span"
       THEN {SpanWriter(i, t, a) : i \in is, t \in ts, a \in ms}
       ELSE {[interval |-> i, timeout |-> t] : i \in is, t \in ts}

\* The state after construction of the writer, in a behaviour of plan p.
Constructed(p) ==
    /\ kind \in {"base", "span"}
    /\ plan = p
    /\ writer \in Writers(kind, p)
    /\ _llmobs_agentless_enabled \in (IF p = "recreate" THEN BOOLEAN ELSE {TRUE})
    /\ recreated = {}
    /\ idleStops = 0
    /\ status = "STOPPED"
    /\ worker = "off"
    /\ hooks = 0
    /\ starts = 0
    /\ phase = "up"
    /\ hooksLeft = 0
    /\ buffer = <<>>
    /\ buffer_size = 0
    /\ lockOwner = NoThread
    /\ lockCount = 0
    /\ pc = [t \in Threads |-> "idle"]
    /\ ev = [t \in Threads |-> <<>>]
    /\ esize = [t \in Threads |-> 0]
    /\ forced = {}
    /\ batch = [t \in Threads |-> <<>>]
    /\ created = <<>>
    /\ fate = <<>>
    /\ ndetach = <<>>
    /\ calls = <<>>
    /\ raised = {}

Init == Constructed("events")
LifeInit == Constructed("lifecycle")
LiveInit == Constructed("progress")
SizeInit == Constructed("sizes")
CallInit == Constructed("calls")
RecreateInit == Constructed("recreate")

\* The numbers of enqueue calls, of start calls and of stop calls on a
\* stopped writer that a behaviour of the plan makes at most.
CallsAllowed ==
    CASE plan = "events" -> MaxEvents
      [] plan = "lifecycle" -> MaxLifeEvents
      [] plan = "progress" -> MaxLiveEvents
      [] plan = "sizes" -> MaxSizeEvents
      [] plan = "calls" -> MaxCallEvents
      [] plan = "recreate" -> MaxCallEvents
StartsAllowed ==
    CASE plan = "events" -> MaxStarts
      [] plan = "lifecycle" -> MaxLifeStarts
      [] plan = "progress" -> MaxLiveStarts
      [] plan = "sizes" -> MaxStarts
      [] plan = "calls" -> MaxLiveStarts
      [] plan = "recreate" -> MaxLiveStarts
IdleStopsAllowed == IF plan = "lifecycle" THEN MaxIdleStops ELSE 0

\* The events a producer may pass to the span writer's enqueue as the
\* id-th event of the behaviour.
Offered(id) ==
    NewEvents(id) \cup (IF plan = "sizes" THEN HeavyEvents(id) ELSE {})

\* ------------------------------------------------------------ the RLock
\* A lock that excludes nobody.
Acquirable_any(t) == TRUE

\* A lock that its owner cannot acquire again.
Acquirable_exclusive(t) == lockOwner = NoThread

\* forksafe.RLock: free, or already held by the calling thread.
Acquirable(t) == lockOwner \in {NoThread, t}

Acquire(t) ==
    /\ Acquirable(t)
    /\ lockOwner' = t
    /\ lockCount' = lockCount + 1

Release(t) ==
    /\ lockOwner' = IF lockCount = 1 THEN NoThread ELSE lockOwner
    /\ lockCount' = lockCount - 1

\* --------------------------------------------------------------- helpers
Ids(s) == [i \in 1..Len(s) |-> s[i].id]
IdSet(s) == {s[i].id : i \in 1..Len(s)}
Goto(t, l) == pc' = [pc EXCEPT ![t] = l]
\* Thread t is at l, in a process that still runs.
At(t, l) == phase # "down" /\ pc[t] = l
SetFate(ids, f) ==
    fate' = [i \in 1..Len(fate) |-> IF i \in ids THEN f ELSE fate[i]]
\* The writer no longer holds the events ids.
Forget(ids) ==
    created' = [i \in 1..Len(created) |-> IF i \in ids THEN <<>> ELSE created[i]]

\* The producers are interchangeable: the one that makes the first enqueue
\* call of a behaviour is taken to be the first of them.
MayCall(t) == created = <<>> => t = "p1"

\* A capacity check that is off by one.
IsFull_gt(buf) == Len(buf) > BufferLimit

\* `if len(self._buffer) >= self._buffer_limit`
IsFull(buf) == Len(buf) >= BufferLimit

\* What a flush does when it is over: a producer goes on in enqueue (the
\* forced flush was called inside its `with` block), the others are done.
Return(t) == Goto(t, IF t \in Producers THEN "enq_unlock" ELSE "idle")

\* The first step of periodic(), by the writer's class.
FlushEntry == IF kind = "base" THEN "per_lock" ELSE "enc_lock"

\* A json.dumps that accepts every value.
Serializable_always(events) == TRUE

\* json.dumps raises TypeError when some event holds a value it cannot encode.
Serializable(events) == \A i \in 1..Len(events) : events[i].ser

\* What an HTTP exchange can come to: a response below 300, a response of
\* 300 or above, an exception of the connection (refused, timed out).
HttpOutcomes == {"ok", "status", "exception"}

\* `except Exception:` around the HTTP exchange: whatever it raises is
\* logged there, and nothing is raised to the caller of the flush.
Handled(outcome) == outcome \in HttpOutcomes

\* ------------------------------------------------- BaseLLMObsWriter
\* LLMObsEvalMetricWriter.enqueue(event): the call of self._enqueue(event).
EvalMetric_enqueue(t) ==
    /\ kind = "base"
    /\ phase = "up"
    /\ pc[t] = "idle"
    /\ Len(created) < CallsAllowed
    /\ MayCall(t)
    /\ \E e \in NewMetricEvents(Len(created) + 1) :
          /\ created' = Append(created, <<e>>)
          /\ ev' = [ev EXCEPT ![t] = <<e>>]
    /\ fate' = Append(fate, "pending")
    /\ ndetach' = Append(ndetach, 0)
    /\ Goto(t, "benq")
    /\ UNCHANGED <<conf, life, buffer, buffer_size, lock, esize, forced,
                   batch, calls, raised>>

\* An append that makes room in a full buffer by dropping its oldest event.
EnqueueResult_oldest(buf, events) ==
    IF IsFull(buf) THEN Tail(buf) \o events ELSE buf \o events

\* The buffer after the body of _enqueue / put: a full buffer is left as it
\* is (the event is dropped), else the event is appended.
EnqueueResult(buf, events) == IF IsFull(buf) THEN buf ELSE buf \o events

\* _enqueue: the `with self._lock:` block.
_enqueue(t) ==
    /\ At(t, "benq")
    /\ Acquirable(t)
    /\ buffer' = EnqueueResult(buffer, ev[t])
    /\ SetFate(IdSet(ev[t]), IF IsFull(buffer) THEN "dropped" ELSE "buffered")
    /\ Forget(IF IsFull(buffer) THEN IdSet(ev[t]) ELSE {})
    /\ calls' = calls \o Ids(ev[t])
    /\ ev' = [ev EXCEPT ![t] = <<>>]
    /\ Goto(t, "idle")
    /\ UNCHANGED <<conf, life, buffer_size, lock, esize, forced, batch,
                   ndetach, raised>>

\* periodic: `with self._lock:`
periodic_lock(t) ==
    /\ At(t, "per_lock")
    /\ Acquire(t)
    /\ Goto(t, "per_detach")
    /\ UNCHANGED <<conf, life, buffer, buffer_size, local, batch, hist>>

\* A flush that returns as if the buffer were empty.
NothingToDo_always(buf) == TRUE

\* A flush that goes on with an empty buffer.
NothingToDo_never(buf) == FALSE

\* `if not self._buffer: return`
NothingToDo(buf) == buf = <<>>

\* A detach that leaves the batch in the buffer.
Detached_kept(buf) == buf

\* `self._buffer = []`: what the buffer holds once a batch is detached.
Detached(buf) == <<>>

\* The bookkeeping of a detach: each event of the batch is in one batch more.
NoteDetach(events) ==
    /\ ndetach' = [i \in 1..Len(ndetach) |->
                     IF i \in IdSet(events) THEN ndetach[i] + 1 ELSE ndetach[i]]
    /\ calls' = <<>>

\* periodic: the body of the `with` block (return if the buffer is empty,
\* else events = self._buffer; self._buffer = []), leaving the block, then
\* data = self._data(events); json.dumps(data), its TypeError caught.
periodic_detach(t) ==
    /\ At(t, "per_detach")
    /\ Release(t)
    /\ IF NothingToDo(buffer)
         THEN /\ Return(t)
              /\ UNCHANGED <<buffer, batch, hist>>
         ELSE /\ buffer' = Detached(buffer)
              /\ NoteDetach(buffer)
              /\ IF Serializable(buffer)
                   THEN /\ batch' = [batch EXCEPT ![t] = buffer]
                        /\ SetFate(IdSet(buffer), "detached")
                        /\ Goto(t, "per_send")
                        /\ UNCHANGED created
                   ELSE /\ SetFate(IdSet(buffer), "encfail")
                        /\ Forget(IdSet(buffer))
                        /\ Return(t)
                        /\ UNCHANGED batch
              /\ UNCHANGED raised
    /\ UNCHANGED <<conf, life, buffer_size, local>>

\* A failed batch put back at the head of the buffer.
AfterSend_requeue(buf, events, outcome) ==
    IF outcome = "ok" THEN buf ELSE events \o buf

\* The buffer after the HTTP exchange of a batch: the batch is not put back.
AfterSend(buf, events, outcome) == buf

\* periodic: conn.request, the response, `except Exception`, conn.close().
periodic_send(t) ==
    /\ At(t, "per_send")
    /\ \E outcome \in HttpOutcomes :
          /\ buffer' = AfterSend(buffer, batch[t], outcome)
          /\ SetFate(IdSet(batch[t]), IF outcome = "ok" THEN "sent" ELSE "failed")
          /\ raised' = IF Handled(outcome) THEN raised ELSE raised \cup {t}
    /\ Forget(IdSet(batch[t]))
    /\ batch' = [batch EXCEPT ![t] = <<>>]
    /\ Return(t)
    /\ UNCHANGED <<conf, life, buffer_size, lock, local, ndetach, calls>>

\* --------------------------------------------------- LLMObsSpanEncoder
\* A put that counts the event without the brackets of the list.
PutSize_unbracketed(size, events) == size + JsonLen(events[1])

\* `self.buffer_size += len(json.dumps(events))`
PutSize(size, events) == size + JsonLen(events[1]) + ListOverhead

\* put: the `with self._lock:` block. The events enqueue hands to put are
\* ones json.dumps accepted (enqueue measured them first).
put(t) ==
    /\ At(t, "put")
    /\ Acquirable(t)
    /\ buffer' = EnqueueResult(buffer, ev[t])
    /\ buffer_size' = IF IsFull(buffer) THEN buffer_size
                      ELSE PutSize(buffer_size, ev[t])
    /\ SetFate(IdSet(ev[t]), IF IsFull(buffer) THEN "dropped" ELSE "buffered")
    /\ Forget(IF IsFull(buffer) THEN IdSet(ev[t]) ELSE {})
    /\ calls' = calls \o Ids(ev[t])
    /\ ev' = [ev EXCEPT ![t] = <<>>]
    /\ esize' = [esize EXCEPT ![t] = 0]
    /\ forced' = forced \ {t}
    /\ Goto(t, "idle")
    /\ UNCHANGED <<conf, life, lock, batch, ndetach, raised>>

\* encode: `with self._lock:`
encode_lock(t) ==
    /\ At(t, "enc_lock")
    /\ Acquire(t)
    /\ Goto(t, "enc_detach")
    /\ UNCHANGED <<conf, life, buffer, buffer_size, local, batch, hist>>

\* encode: the body of the `with` block (return if the buffer is empty, else
\* events = self._buffer; self._init_buffer()), leaving the block, then
\* json.dumps(data), its TypeError caught; the payload is returned.
encode_detach(t) ==
    /\ At(t, "enc_detach")
    /\ Release(t)
    /\ IF NothingToDo(buffer)
         THEN /\ Return(t)
              /\ UNCHANGED <<buffer, buffer_size, batch, hist>>
         ELSE /\ buffer' = Detached(buffer)
              /\ buffer_size' = 0
              /\ NoteDetach(buffer)
              /\ IF Serializable(buffer)
                   THEN /\ batch' = [batch EXCEPT ![t] = buffer]
                        /\ SetFate(IdSet(buffer), "detached")
                        /\ Goto(t, "flush_send")
                        /\ UNCHANGED created
                   ELSE /\ SetFate(IdSet(buffer), "encfail")
                        /\ Forget(IdSet(buffer))
                        /\ Return(t)
                        /\ UNCHANGED batch
              /\ UNCHANGED raised
    /\ UNCHANGED <<conf, life, local>>

\* HTTPWriter._flush_queue_with_client, once encode gave a payload: the HTTP
\* POST; a failure is logged and the batch is not put back.
flush_send(t) ==
    /\ At(t, "flush_send")
    /\ \E outcome \in HttpOutcomes :
          /\ buffer' = AfterSend(buffer, batch[t], outcome)
          /\ SetFate(IdSet(batch[t]), IF outcome = "ok" THEN "sent" ELSE "failed")
          /\ raised' = IF Handled(outcome) THEN raised ELSE raised \cup {t}
    /\ Forget(IdSet(batch[t]))
    /\ batch' = [batch EXCEPT ![t] = <<>>]
    /\ Return(t)
    /\ UNCHANGED <<conf, life, buffer_size, lock, local, ndetach, calls>>

\* ---------------------------------------------------- LLMObsSpanWriter
\* A size check that lets an event of exactly the limit through.
NeedsTruncation_gt(size) == size > EVP_EVENT_SIZE_LIMIT

\* `if event_size >= EVP_EVENT_SIZE_LIMIT`
NeedsTruncation(size) == size >= EVP_EVENT_SIZE_LIMIT

\* `if (client.encoder.buffer_size + event_size) > EVP_PAYLOAD_SIZE_LIMIT`
ExceedsPayload(size, event_size) == size + event_size > EVP_PAYLOAD_SIZE_LIMIT

\* enqueue, up to the loop over the clients: event_size = len(json.dumps(
\* event)), which raises TypeError for an event json cannot encode; the
\* event is truncated when its size is at or above the limit.
Span_enqueue(t) ==
    /\ kind = "span"
    /\ phase = "up"
    /\ pc[t] = "idle"
    /\ Len(created) < CallsAllowed
    /\ MayCall(t)
    /\ \E e \in Offered(Len(created) + 1) :
          /\ created' = Append(created, IF e.ser THEN <<e>> ELSE <<>>)
          /\ ndetach' = Append(ndetach, 0)
          /\ IF e.ser
               THEN /\ esize' = [esize EXCEPT ![t] = JsonLen(e)]
                    /\ ev' = [ev EXCEPT ![t] =
                                IF NeedsTruncation(JsonLen(e))
                                  THEN <<_truncate_span_event(e)>>
                                  ELSE <<e>>]
                    /\ fate' = Append(fate, "pending")
                    /\ Goto(t, "enq_check")
                    /\ UNCHANGED raised
               ELSE /\ raised' = raised \cup {t}
                    /\ fate' = Append(fate, "raised")
                    /\ UNCHANGED <<ev, esize, pc>>
    /\ UNCHANGED <<conf, life, buffer, buffer_size, lock, forced, batch,
                   calls>>

\* enqueue: `with client.encoder._lock:` and the payload size check; over
\* the limit, the call of self._flush_queue_with_client(client) with the
\* lock held, else the end of the block.
Span_enqueue_check(t) ==
    /\ At(t, "enq_check")
    /\ Acquirable(t)
    /\ IF ExceedsPayload(buffer_size, esize[t])
         THEN /\ Acquire(t)
              /\ forced' = forced \cup {t}
              /\ Goto(t, "enc_lock")
         ELSE /\ Goto(t, "put")
              /\ UNCHANGED <<lock, forced>>
    /\ UNCHANGED <<conf, life, buffer, buffer_size, ev, esize, batch, hist>>

\* enqueue: the forced flush is over; leaving the `with` block. Then
\* self.write([event]) hands the event to the client's encoder (put).
Span_enqueue_unlock(t) ==
    /\ At(t, "enq_unlock")
    /\ Release(t)
    /\ Goto(t, "put")
    /\ UNCHANGED <<conf, life, buffer, buffer_size, local, batch, hist>>

\* ------------------------------------------------------------ lifecycle
\* A start that registers no atexit callback.
start_unregistered ==
    /\ phase = "up"
    /\ pc[Main] = "idle"
    /\ status = "STOPPED"
    /\ worker = "off"
    /\ starts < StartsAllowed
    /\ status' = "RUNNING"
    /\ worker' = "on"
    /\ starts' = starts + 1
    /\ UNCHANGED <<conf, hooks, phase, hooksLeft, idleStops, buffer,
                   buffer_size, lock, pc, local, batch, hist>>

\* start: the service starts (status RUNNING, the worker thread runs), then
\* atexit.register(self.on_shutdown).
start ==
    /\ phase = "up"
    /\ pc[Main] = "idle"
    /\ status = "STOPPED"
    /\ worker = "off"
    /\ starts < StartsAllowed
    /\ status' = "RUNNING"
    /\ worker' = "on"
    /\ starts' = starts + 1
    /\ hooks' = hooks + 1
    /\ UNCHANGED <<conf, phase, hooksLeft, idleStops, buffer, buffer_size,
                   lock, pc, local, batch, hist>>

\* A stop that calls the parent's stop whatever the status is.
stop_unguarded ==
    /\ phase = "up"
    /\ pc[Main] = "idle"
    /\ status = "STOPPED" => idleStops < IdleStopsAllowed
    /\ status' = "STOPPED"
    /\ worker' = "halting"
    /\ idleStops' = IF status = "STOPPED" THEN idleStops + 1 ELSE idleStops
    /\ UNCHANGED <<conf, hooks, starts, phase, hooksLeft, buffer, buffer_size,
                   lock, pc, local, batch, hist>>

\* stop: `if self.status != ServiceStatus.STOPPED: super().stop(timeout)`.
\* The parent's stop marks the service STOPPED and tells the worker to halt
\* after its current invocation; with the status STOPPED nothing is done
\* (the call is counted).
stop ==
    /\ phase = "up"
    /\ pc[Main] = "idle"
    /\ IF status # "STOPPED"
         THEN /\ status' = "STOPPED"
              /\ worker' = "halting"
              /\ UNCHANGED idleStops
         ELSE /\ idleStops < IdleStopsAllowed
              /\ idleStops' = idleStops + 1
              /\ UNCHANGED <<status, worker>>
    /\ UNCHANGED <<conf, hooks, starts, phase, hooksLeft, buffer, buffer_size,
                   lock, pc, local, batch, hist>>

\* The worker thread calls periodic() once per interval.
TimerFire ==
    /\ worker = "on"
    /\ At(Timer, "idle")
    /\ Goto(Timer, FlushEntry)
    /\ UNCHANGED <<conf, life, buffer, buffer_size, lock, local, batch,
                   hist>>

\* A worker thread that ends without a last flush.
TimerShutdown_quiet ==
    /\ worker = "halting"
    /\ At(Timer, "idle")
    /\ worker' = "off"
    /\ UNCHANGED <<conf, status, hooks, starts, phase, hooksLeft, idleStops,
                   buffer, buffer_size, lock, pc, local, batch, hist>>

\* The worker thread, told to stop, calls on_shutdown() and ends.
TimerShutdown ==
    /\ worker = "halting"
    /\ At(Timer, "idle")
    /\ worker' = "off"
    /\ Goto(Timer, FlushEntry)
    /\ UNCHANGED <<conf, status, hooks, starts, phase, hooksLeft, idleStops,
                   buffer, buffer_size, lock, local, batch, hist>>

\* Normal process termination: the non-daemon threads have ended (the
\* producers are out of enqueue); the atexit callbacks are about to run.
ProcessExit ==
    /\ phase = "up"
    /\ \A t \in Producers \cup {Main} : pc[t] = "idle"
    /\ phase' = "exiting"
    /\ hooksLeft' = hooks
    /\ UNCHANGED <<conf, status, worker, hooks, starts, idleStops, buffer,
                   buffer_size, lock, pc, local, batch, hist>>

\* One atexit callback: on_shutdown(), which calls periodic().
on_shutdown ==
    /\ phase = "exiting"
    /\ pc[Main] = "idle"
    /\ hooksLeft > 0
    /\ hooksLeft' = hooksLeft - 1
    /\ Goto(Main, FlushEntry)
    /\ UNCHANGED <<conf, status, worker, hooks, starts, phase, idleStops,
                   buffer, buffer_size, lock, local, batch, hist>>

\* Every atexit callback has returned: the process is gone, and its daemon
\* worker thread with it.
ProcessDown ==
    /\ phase = "exiting"
    /\ pc[Main] = "idle"
    /\ hooksLeft = 0
    /\ phase' = "down"
    /\ UNCHANGED <<conf, status, worker, hooks, starts, hooksLeft, idleStops,
                   buffer, buffer_size, lock, pc, local, batch, hist>>

Next ==
    \/ \E t \in Producers : EvalMetric_enqueue(t)
    \/ \E t \in Producers : _enqueue(t)
    \/ \E t \in Threads : periodic_lock(t)
    \/ \E t \in Threads : periodic_detach(t)
    \/ \E t \in Threads : periodic_send(t)
    \/ \E t \in Producers : Span_enqueue(t)
    \/ \E t \in Producers : Span_enqueue_check(t)
    \/ \E t \in Producers : Span_enqueue_unlock(t)
    \/ \E t \in Producers : put(t)
    \/ \E t \in Threads : encode_lock(t)
    \/ \E t \in Threads : encode_detach(t)
    \/ \E t \in Threads : flush_send(t)
    \/ start
    \/ stop
    \/ TimerFire
    \/ TimerShutdown
    \/ ProcessExit
    \/ on_shutdown
    \/ ProcessDown

Spec == Init /\ [][Next]_vars

\* The behaviours that explore the lifecycle.
LifeSpec == LifeInit /\ [][Next]_vars

\* LLMObsSpanWriter.recreate: a new writer of the same class, constructed
\* with self._interval, self._timeout and config._llmobs_agentless_enabled.
\* The writer it is called on is left as it is.
recreate ==
    /\ kind = "span"
    /\ phase = "up"
    /\ recreated' = recreated \cup
          {SpanWriter(writer.interval, writer.timeout, _llmobs_agentless_enabled)}
    /\ UNCHANGED <<kind, plan, writer, _llmobs_agentless_enabled, life, buffer,
                   buffer_size, lock, pc, local, batch, hist>>

\* The behaviours that explore writers of every setting, and recreate.
RecreateNext == Next \/ recreate
RecreateSpec == RecreateInit /\ [][RecreateNext]_vars

\* The behaviours that explore events large outside meta.input / output.
SizeSpec == SizeInit /\ [][Next]_vars

\* A step of thread t inside a flush, and inside an enqueue call.
FlushStep(t) ==
    \/ periodic_lock(t) \/ periodic_detach(t) \/ periodic_send(t)
    \/ encode_lock(t) \/ encode_detach(t) \/ flush_send(t)
EnqueueStep(t) ==
    _enqueue(t) \/ Span_enqueue_check(t) \/ Span_enqueue_unlock(t) \/ put(t)

\* A step the program takes without being asked: inside a call, by the
\* worker thread, by atexit.
Internal ==
    \/ \E t \in Threads : FlushStep(t)
    \/ \E t \in Producers : EnqueueStep(t)
    \/ TimerFire
    \/ TimerShutdown
    \/ on_shutdown

\* Scheduling: while some thread inside a call, the worker thread or atexit
\* can take a step, one of them does (a lock that is free is acquired, an
\* HTTP exchange ends: it has a timeout). Nothing obliges the program to
\* call enqueue, start or stop, nor the process to terminate.
Fairness == WF_vars(Internal)

\* The behaviours checked for progress.
FairSpec == LiveInit /\ [][Next]_vars /\ Fairness

\* Scheduling, thread by thread: a thread inside a call that can take a
\* step again and again takes it (a thread waiting for a lock that is
\* released again and again gets it; an HTTP exchange ends), the worker
\* thread runs, and atexit runs its callbacks.
ThreadFairness ==
    /\ \A t \in Threads : SF_vars(FlushStep(t))
    /\ \A t \in Producers : SF_vars(EnqueueStep(t))
    /\ WF_vars(TimerFire)
    /\ WF_vars(TimerShutdown)
    /\ WF_vars(on_shutdown)

\* The behaviours checked for the completion of every call.
FairThreadSpec == CallInit /\ [][Next]_vars /\ ThreadFairness

\* =================================================================
\* Properties
\* =================================================================
Count(s, id) == Cardinality({k \in 1..Len(s) : s[k].id = id})
Accepted(i) == fate[i] \notin {"pending", "dropped", "raised"}
Sending(t) == pc[t] \in {"per_send", "flush_send"}
Detaching(t) == pc[t] \in {"per_detach", "enc_detach"}
Min(a, b) == IF a <= b THEN a ELSE b

\* C1: every event accepted into the buffer is either still in the buffer
\* (once) or was returned by exactly one detach, never both and never by
\* two detaches; the batches threads hold are disjoint. An event appended
\* while a flush is in flight stays in the buffer.
C1_ExactlyOneDetach ==
    /\ \A i \in 1..Len(created) :
          /\ ndetach[i] <= 1
          /\ Accepted(i) => Count(buffer, i) + ndetach[i] = 1
          /\ ~Accepted(i) => Count(buffer, i) + ndetach[i] = 0
    /\ \A t \in Threads : \A i \in IdSet(batch[t]) :
          /\ ndetach[i] = 1
          /\ \A u \in Threads \ {t} : i \notin IdSet(batch[u])

\* A flush is in flight with its batch, and an event appended since is in
\* the buffer, in no batch.
C1_Witness ==
    \E t \in Threads :
       /\ Sending(t)
       /\ batch[t] # <<>>
       /\ buffer # <<>>
       /\ \A k \in 1..Len(buffer) : ndetach[buffer[k].id] = 0
\* The step in which thread t runs the `with` block of _enqueue / put.
AppendStep(t) == pc[t] \in {"benq", "put"} /\ pc'[t] = "idle"

\* C2: the buffer never holds more than the buffer limit, and an append
\* made when the buffer is at the limit leaves the buffer (and buffer_size)
\* as they are and reports the drop of its event.
C2_NeverOverCapacity ==
    /\ [](Len(buffer) <= BufferLimit)
    /\ [][\A t \in Producers :
            (AppendStep(t) /\ Len(buffer) = BufferLimit) =>
               /\ buffer' = buffer
               /\ buffer_size' = buffer_size
               /\ fate'[ev[t][1].id] = "dropped"]_vars

\* The buffer is at the limit and an event was dropped.
C2_Witness ==
    /\ Len(buffer) = BufferLimit
    /\ \E i \in 1..Len(fate) : fate[i] = "dropped"

\* The step in which thread t detaches a non-empty buffer.
DetachStep(t) == Detaching(t) /\ pc'[t] # pc[t] /\ buffer # <<>>

\* C3: after N appends on an empty buffer with no detach in between (calls
\* lists them), the next detach yields the first min(N, capacity) of them
\* in insertion order, and each call beyond the capacity dropped its event.
C3_FirstMinNInOrder ==
    [][\A t \in Threads :
         DetachStep(t) =>
            LET n == Min(Len(calls), BufferLimit)
                first == SubSeq(calls, 1, n)
            IN /\ {i \in 1..Len(ndetach) : ndetach'[i] = ndetach[i] + 1}
                     = {first[k] : k \in 1..n}
               /\ Sending(t)' => Ids(batch'[t]) = first
               /\ \A k \in 1..Len(calls) :
                     fate[calls[k]] = "dropped" <=> k > BufferLimit]_vars

\* More events were appended than the buffer takes, and a detach yielded a
\* full batch, now being sent.
C3_Witness ==
    \E t \in Threads :
       /\ Sending(t)
       /\ Len(batch[t]) = BufferLimit
       /\ \E i \in 1..Len(fate) : fate[i] = "dropped"

\* C4: an event of a batch whose HTTP exchange failed is not in the buffer
\* again nor in any later batch, and no exception came out of a flush.
C4_FailedBatchDropped ==
    /\ \A i \in 1..Len(fate) :
          fate[i] = "failed" =>
             /\ Count(buffer, i) = 0
             /\ ndetach[i] = 1
             /\ \A t \in Threads : i \notin IdSet(batch[t])
    /\ raised \cap {Timer, Main} = {}

\* A batch failed, and an event enqueued later was sent by a later flush.
C4_Witness ==
    \E i, j \in 1..Len(fate) :
       /\ i < j
       /\ fate[i] = "failed"
       /\ fate[j] = "sent"
\* C5: no exception ever comes out of a producer's enqueue call.
C5_EnqueueNeverRaises == raised \cap Producers = {}

\* The events the span writer handed, or is about to hand, to its encoder.
Handed ==
    {buffer[k] : k \in 1..Len(buffer)}
       \cup UNION {{batch[t][k] : k \in 1..Len(batch[t])} : t \in Threads}
       \cup UNION {{ev[t][k] : k \in 1..Len(ev[t])} : t \in Producers}

\* C6: in the span writer, an event whose serialized size is at or above
\* the event size limit reaches the encoder as its truncation, and a
\* smaller one reaches it with every field as it was passed to enqueue.
C6_TruncatedIffAtOrAboveLimit ==
    kind = "span" =>
       \A e \in Handed :
          LET o == created[e.id][1]
          IN IF JsonLen(o) >= EVP_EVENT_SIZE_LIMIT
               THEN e = _truncate_span_event(o)
               ELSE e = o

\* The encoder's buffer holds the truncation of an event whose size was
\* exactly the limit, and an event that was not altered.
C6_Witness ==
    /\ kind = "span"
    /\ \E k \in 1..Len(buffer) :
          /\ JsonLen(created[buffer[k].id][1]) = EVP_EVENT_SIZE_LIMIT
          /\ buffer[k] = _truncate_span_event(created[buffer[k].id][1])
    /\ \E k \in 1..Len(buffer) :
          /\ JsonLen(created[buffer[k].id][1]) < EVP_EVENT_SIZE_LIMIT
          /\ buffer[k] = created[buffer[k].id][1]

\* C7: an enqueue whose check finds the payload limit exceeded flushes the
\* client before its event is added (the forced detach leaves buffer_size
\* at 0 and the event not yet in the buffer), and right after the enqueue
\* the buffer holds only the new event, buffer_size only its size.
C7_OnlyNewEventAfterForcedFlush ==
    [][\A t \in Producers :
         /\ (DetachStep(t) /\ t \in forced) =>
               /\ buffer_size' = 0
               /\ buffer' = <<>>
               /\ fate[ev[t][1].id] = "pending"
         /\ (AppendStep(t) /\ t \in forced) =>
               /\ buffer' = ev[t]
               /\ buffer_size' = PutSize(0, ev[t])]_vars

\* Flushing: thread t is inside periodic / _flush_queue_with_client.
InFlush(t) ==
    pc[t] \in {"per_lock", "per_detach", "per_send",
               "enc_lock", "enc_detach", "flush_send"}

C9_NoHttpUnderLock == \A t \in Threads : Sending(t) => lockOwner # t

\* C10: for a writer that was started, once the atexit callbacks have run
\* at process termination, on_shutdown was invoked and the buffer is empty:
\* no accepted event is left undetached.
C10_FinalFlushAtExit ==
    (starts > 0 /\ phase # "up" /\ pc[Main] = "idle" /\ hooksLeft = 0) =>
       /\ hooks > 0
       /\ buffer = <<>>
       /\ \A i \in 1..Len(fate) : fate[i] \notin {"pending", "buffered"}

\* stop() was called and the worker has ended; the process terminates and
\* on_shutdown, run by atexit, is sending the events enqueued since.
C10_Witness ==
    /\ phase = "exiting"
    /\ status = "STOPPED"
    /\ worker = "off"
    /\ starts > 0
    /\ Sending(Main)
    /\ batch[Main] # <<>>

\* json.dumps accepts every event of the sequence.
AllEncodable(events) == \A k \in 1..Len(events) : events[k].ser

C12_NoSendOnEmptyBuffer ==
    /\ \A t \in Threads : Sending(t) => batch[t] # <<>>
    /\ \A t \in Threads : ~Sending(t) => batch[t] = <<>>

\* A producer's enqueue of an event larger than the payload limit forced a
\* flush of the empty encoder: the flush is over, nothing was ever detached
\* and no request was made.
C12_Witness ==
    \E t \in Producers :
       /\ t \in forced
       /\ pc[t] = "enq_unlock"
       /\ buffer = <<>>
       /\ \A i \in 1..Len(ndetach) : ndetach[i] = 0
       /\ \A u \in Threads : ~Sending(u)

\* The events of the state: those passed to enqueue and still held, and
\* those handed to the encoder (truncated or not).
Known ==
    Handed \cup {created[i][1] : i \in {j \in 1..Len(created) : created[j] # <<>>}}

\* C13: truncating an event twice gives what truncating it once gives, and
\* truncation leaves every field other than meta.input, meta.output and
\* collection_errors as it was.
C13_TruncateIdempotent ==
    kind = "span" =>
       \A e \in Known :
          LET t == _truncate_span_event(e)
          IN /\ _truncate_span_event(t) = t
             /\ t.id = e.id
             /\ t.rest = e.rest
             /\ t.ser = e.ser

\* The encoder's buffer holds a truncated event, made from an event that
\* came with a collection error of its own.
C13_Witness ==
    /\ kind = "span"
    /\ \E k \in 1..Len(buffer) :
          /\ buffer[k].input = DROPPED_VALUE_TEXT
          /\ created[buffer[k].id][1].errs # <<>>
          /\ created[buffer[k].id][1].input # DROPPED_VALUE_TEXT

\* C14: a truncated event carries the placeholder in meta.input and
\* meta.output, and its collection_errors are those the event had before
\* truncation followed by the marker.
C14_MarkerAppended ==
    kind = "span" =>
       \A e \in Handed :
          LET o == created[e.id][1]
          IN NeedsTruncation(JsonLen(o)) =>
                /\ e.input = DROPPED_VALUE_TEXT
                /\ e.output = DROPPED_VALUE_TEXT
                /\ e.errs = Append(o.errs, DROPPED_IO_COLLECTION_ERROR)

\* C15: a stop() of the span writer that finds the status STOPPED changes
\* nothing: no parent stop (the worker is not told to halt), no flush, no
\* exception, status and buffer as they were; a stop() that finds another
\* status calls the parent's stop (status STOPPED, the worker told to halt).
C15_StopWhenStoppedIsNoOp ==
    [][kind = "span" =>
         /\ idleStops' # idleStops =>
               /\ status = "STOPPED"
               /\ UNCHANGED <<status, worker, hooks, starts, phase, hooksLeft,
                              buffer, buffer_size, lock, pc, local, batch, hist>>
         /\ (status # "STOPPED" /\ status' = "STOPPED") =>
               /\ worker' = "halting"
               /\ UNCHANGED <<buffer, buffer_size, pc, raised>>]_vars

\* stop() was called on a span writer that was started and stopped before
\* and whose worker has ended, while an event sits in the buffer.
C15_Witness ==
    /\ kind = "span"
    /\ idleStops > 0
    /\ starts > 0
    /\ status = "STOPPED"
    /\ worker = "off"
    /\ buffer # <<>>

\* C16: on_shutdown is registered with atexit at most once per writer, an
\* explicit stop() removes the registration, and process exit invokes
\* on_shutdown at most once.
C16_ShutdownHookOnce ==
    /\ hooks <= 1
    /\ (starts > 0 /\ status = "STOPPED") => hooks = 0
    /\ phase # "up" => hooks - hooksLeft <= 1

\* Event i was accepted and no flush has detached it yet.
Buffered(i) == i <= Len(fate) /\ fate[i] = "buffered"

\* C17: an event that is in the buffer when stop() has told the worker to
\* halt does not stay there: a last flush detaches it, whether or not the
\* timer ever fired.
C17_FinalFlushAfterStop ==
    \A i \in 1..MaxLiveEvents :
       (worker = "halting" /\ Buffered(i)) ~> ~Buffered(i)

\* start(), one enqueue and stop(): the process still runs, the worker has
\* ended, and its last flush is the only detach there ever was; it is
\* sending the event.
C17_Witness ==
    /\ phase = "up"
    /\ starts = 1
    /\ status = "STOPPED"
    /\ worker = "off"
    /\ Len(created) = 1
    /\ ndetach[1] = 1
    /\ Sending(Timer)
    /\ Ids(batch[Timer]) = <<1>>

\* C18: an event accepted into the buffer of a writer whose scheduler is
\* running is eventually detached by a flush (and then sent or dropped by
\* it); it does not stay in the buffer, whatever the producers do meanwhile.
C18_AcceptedEventuallyDetached ==
    \A i \in 1..MaxLiveEvents :
       (status = "RUNNING" /\ Buffered(i)) ~> ~Buffered(i)

\* The scheduler runs, the timer's flush is sending a batch it detached,
\* and a producer is inside enqueue with another event.
C18_Witness ==
    /\ status = "RUNNING"
    /\ Sending(Timer)
    /\ batch[Timer] # <<>>
    /\ \E t \in Producers : pc[t] # "idle" /\ ev[t] # <<>>

\* The step in which producer t makes the payload size check of enqueue.
CheckStep(t) == pc[t] = "enq_check" /\ pc'[t] # "enq_check"

\* C19: enqueue forces a flush exactly when buffer_size plus the serialized
\* size of the event as it will be buffered (truncated, if it was) exceeds
\* the payload limit, and put adds the size of that event to buffer_size.
C19_FlushDecidedOnBufferedSize ==
    [][\A t \in Producers :
         /\ CheckStep(t) =>
               (pc'[t] = "enc_lock" <=>
                   ExceedsPayload(buffer_size, JsonLen(ev[t][1])))
         /\ (AppendStep(t) /\ kind = "span" /\ ~IsFull(buffer)) =>
               buffer_size' = buffer_size + JsonLen(ev[t][1]) + ListOverhead]_vars

\* The sum over the events of a sequence of len(json.dumps([event])), which
\* is what put measures when it adds the event.
RECURSIVE MeasuredSize(_)
MeasuredSize(events) ==
    IF events = <<>> THEN 0
    ELSE JsonLen(Head(events)) + ListOverhead + MeasuredSize(Tail(events))

\* C20: the encoder's buffer_size is the sum of the serialized lengths, as
\* put measured them, of the events in its buffer; it is 0 when the buffer
\* is empty.
C20_BufferSizeIsSum ==
    /\ buffer_size = (IF kind = "span" THEN MeasuredSize(buffer) ELSE 0)
    /\ buffer = <<>> => buffer_size = 0

\* An encode has emptied the encoder's buffer and reset buffer_size, and
\* events put since are in the buffer, one of them truncated.
C20_Witness ==
    /\ kind = "span"
    /\ \E i \in 1..Len(ndetach) : ndetach[i] = 1
    /\ \E k \in 1..Len(buffer) : buffer[k].input = DROPPED_VALUE_TEXT
    /\ buffer_size > 0

\* C21: the encoder's buffer_size never exceeds the payload limit, and no
\* two producers are between the payload size check of enqueue and the put
\* that follows it (so that no put separates another call's check and put).
C21_BufferSizeWithinPayloadLimit ==
    /\ buffer_size <= EVP_PAYLOAD_SIZE_LIMIT
    /\ Cardinality({t \in Producers : pc[t] = "put"}) <= 1

\* C22: every event the span writer hands to its encoder has a serialized
\* size below the event size limit.
C22_HandedEventsBelowLimit ==
    kind = "span" => \A e \in Handed : JsonLen(e) < EVP_EVENT_SIZE_LIMIT

\* Thread t is at a `with lock:` that it cannot enter now.
Blocked(t) ==
    /\ pc[t] \in {"benq", "put", "enq_check", "per_lock", "enc_lock"}
    /\ ~Acquirable(t)

C24_FlushedAtExitWithoutStart ==
    (kind = "base" /\ phase = "down") =>
       /\ buffer = <<>>
       /\ \A i \in 1..Len(fate) : fate[i] # "buffered"

\* C25: every writer that recreate() returned has the interval, the timeout
\* and the mode (agentless or proxied) of the writer it was called on.
C25_RecreateKeepsSettings ==
    \A w \in recreated :
       /\ w.interval = writer.interval
       /\ w.timeout = writer.timeout
       /\ w.is_agentless = writer.is_agentless
====
